---------------------------- MODULE Spec2Model ----------------------------
(***************************************************************************)
(* JTAG-Agent: the debug session controller (src/src/agent_tools.py,       *)
(* class GDBInterface) and the device descriptor index                     *)
(* (src/src/hardware_oracle.py, class HardwareOracle).                     *)
(*                                                                         *)
(* The session part is a single caller thread (main.py is single-threaded) *)
(* whose position inside the running method is pc, together with the two   *)
(* kinds of operating-system processes it creates.  The processes run on   *)
(* their own: an emulator exits when it has handled a SIGTERM or on its    *)
(* own account, the debugger answers commands and emits notifications at   *)
(* its own pace.                                                           *)
(***************************************************************************)
EXTENDS Integers, Sequences, FiniteSets, TLC

VARIABLES
    qemu_proc,  \* GDBInterface.qemu_proc: None or the emulator launched last
    gdbmi,      \* GDBInterface.gdbmi: None or the debugger controller
    emu,        \* emulator process -> "unborn" | "running" | "terminating" | "exited"
    gdb,        \* debugger process -> "unborn" | "running" | "exited"
    queue,      \* commands written to the debugger and not answered yet
    outbuf,     \* records the debugger has emitted and the caller has not read
    pc,         \* the caller's position ("killed" once a signal has ended it)
    op,         \* the method of GDBInterface the caller is in ("" when idle)
    pre,        \* the two handles as they were when the current call began
    dropped,    \* how many records the current call read from the debugger and discarded
    ret,        \* the outcome of the call finished last
    last,       \* the method whose call finished last
    regfile,    \* the debugger backend's register file, as far as write_register
                \* touches it: "reset" from the launch on, "v" once v is written
    peripherals,\* HardwareOracle.peripherals: the index
    query,      \* the oracle call made last and its argument
    result      \* what that call returned

svars == <<qemu_proc, gdbmi, emu, gdb, queue, outbuf, pc, op, pre, dropped,
           ret, last, regfile>>
ovars == <<peripherals, query, result>>
vars == <<qemu_proc, gdbmi, emu, gdb, queue, outbuf, pc, op, pre, dropped,
          ret, last, regfile, peripherals, query, result>>

\* Python's None in a handle; processes are numbered from 1.
None == 0
\* The optional width argument of write_memory: a sequence holding at most one width.
NoArg == <<>>

(* Bounds of the model. *)
MaxEmu == 2        \* emulator processes launched in one run
MaxGdb == 2        \* debugger processes launched in one run
MaxPending == 2    \* records and unanswered commands outstanding at a call

EmuIds == 1..MaxEmu
GdbIds == 1..MaxGdb

Live(st) == st \in {"running", "terminating"}
LiveEmus == {e \in EmuIds : Live(emu[e])}
LiveGdbs == {g \in GdbIds : Live(gdb[g])}

(***************************************************************************)
(* Commands.  A command is the text a method writes; for the two memory    *)
(* write forms the C type of the store is kept apart, since it decides the *)
(* width of the store.                                                     *)
(***************************************************************************)
Command(text, ctype) == [mi |-> text, ctype |-> ctype]

\* agent_tools.py:95-96, type_map.get(width, "int")
type_map(width) ==
    CASE width = 1 -> "char"
      [] width = 2 -> "short"
      [] width = 4 -> "int"
      [] width = 8 -> "long long"
      [] OTHER     -> "int"

\* The number of bytes a store through a pointer to the C type writes on the
\* target (gdb-multiarch on a 32-bit embedded target).
SizeOf(ctype) ==
    CASE ctype = "char"      -> 1
      [] ctype = "short"     -> 2
      [] ctype = "int"       -> 4
      [] ctype = "long long" -> 8
      [] OTHER               -> 0

\* agent_tools.py:92-99, the first def write_memory(address, value, width=4).
\* The class body rebinds the name at line 108, so no call reaches it.
write_memory_first(width) ==
    Command("-interpreter-exec console set *(ctype*)address = value",
            type_map(IF width = NoArg THEN 4 ELSE width[1]))

\* agent_tools.py:108-113, the second def write_memory(address, value): the
\* one the class exposes.  It has no width parameter.
write_memory_second ==
    Command("interpreter-exec console set {int}address = value", "int")

\* agent_tools.py:87-90 and 101-106: the second def is the one exposed.
write_register_first == Command("-gdb-set $register_name=value", "")
write_register_second == Command("-gdb-set $register_id = value", "")

Methods == {"step_instruction", "continue_execution", "get_registers",
            "read_memory", "set_breakpoint", "backtrace",
            "evaluate_expression", "write_register", "write_memory"}

Widths == {1, 2, 4, 8}

\* The text each Command API method hands to gdbmi.write.
CommandOf(m) ==
    CASE m = "step_instruction"    -> Command("-exec-next-instruction", "")
      [] m = "continue_execution"  -> Command("-exec-continue", "")
      [] m = "get_registers"       -> Command("-data-list-register-values x", "")
      [] m = "read_memory"         -> Command("-data-read-memory-bytes address length", "")
      [] m = "set_breakpoint"      -> Command("-break-insert location", "")
      [] m = "backtrace"           -> Command("-stack-list-frames", "")
      [] m = "evaluate_expression" -> Command("-data-evaluate-expression expression", "")
      [] m = "write_register"      -> write_register_second
      [] m = "write_memory"        -> write_memory_second

LoadSymbols == Command("-file-exec-and-symbols elf_path", "")
TargetRemote == Command("target remote localhost:1234", "")

StatusString == "Environment restarted. CPU is halted at entry point."

(***************************************************************************)
(* Outcomes of a call: a returned value or a raised exception.  A returned *)
(* debugger response is a sequence of records and is kept in resp.         *)
(***************************************************************************)
Pending == [kind |-> "pending", val |-> "", resp |-> <<>>]
Return(v) == [kind |-> "return", val |-> v, resp |-> <<>>]
Response(r) == [kind |-> "return", val |-> "response", resp |-> r]
Raise(e) == [kind |-> "raise", val |-> e, resp |-> <<>>]

\* Records of the debugger's output stream.  A result record does not name the
\* command it answers (no tokens are sent); the debugger answers in the order
\* written.  own tells whether the command a result record answers was written
\* by the call that is current (or, when the caller is idle, by the call that
\* finished last).
\* value is the payload as far as the register file shows in it: what the
\* register holds, in the "done" record of -data-list-register-values, and
\* nothing in any other record.
Result(c, status) ==
    [kind |-> "result", status |-> status, own |-> c.own,
     value |-> IF c.mi = "-data-list-register-values x" /\ status = "done"
               THEN regfile ELSE ""]
Notify == [kind |-> "notify", status |-> "stopped", own |-> FALSE, value |-> ""]

Aged(seq) == [i \in DOMAIN seq |-> [seq[i] EXCEPT !.own = FALSE]]

\* The oracle has not been called.
NoQuery == [fn |-> "", arg |-> <<>>]
NoResult == [status |-> "no call yet"]

Init ==
    /\ qemu_proc = None                       \* agent_tools.py:10
    /\ gdbmi = None                           \* agent_tools.py:11
    /\ emu = [e \in EmuIds |-> "unborn"]
    /\ gdb = [g \in GdbIds |-> "unborn"]
    /\ queue = <<>>
    /\ outbuf = <<>>
    /\ pc = "idle"
    /\ op = ""
    /\ pre = <<None, None>>
    /\ dropped = 0
    /\ ret = Pending
    /\ last = ""
    /\ regfile = "reset"
    /\ peripherals = <<>>
    /\ query = NoQuery
    /\ result = NoResult

(***************************************************************************)
(* The caller.  Enter(m, to) begins a call of method m; Leave(r) ends the  *)
(* current call with outcome r.                                            *)
(***************************************************************************)
Enter(m, to) ==
    /\ pc' = to
    /\ op' = m
    /\ pre' = <<qemu_proc, gdbmi>>
    /\ dropped' = 0
    /\ ret' = Pending

Leave(r) ==
    /\ pc' = "idle"
    /\ op' = ""
    /\ last' = op
    /\ ret' = r

\* A call that begins and ends in one step.
Whole(m, r) ==
    /\ pc' = "idle"
    /\ op' = ""
    /\ pre' = <<qemu_proc, gdbmi>>
    /\ dropped' = 0
    /\ last' = m
    /\ ret' = r

\* The model launches at most MaxEmu emulators and MaxGdb debuggers.
CanLaunch == (\E e \in EmuIds : emu[e] = "unborn") /\ (\E g \in GdbIds : gdb[g] = "unborn")
NewEmu == CHOOSE e \in EmuIds : emu[e] = "unborn" /\ \A f \in EmuIds : emu[f] = "unborn" => e <= f
NewGdb == CHOOSE g \in GdbIds : gdb[g] = "unborn" /\ \A h \in GdbIds : gdb[h] = "unborn" => g <= h

\* A slip start could make: testing the emulator handle instead of the debugger's.
start_guard_qemu == qemu_proc = None

\* agent_tools.py:15, "if not self.gdbmi"
start_guard == gdbmi = None

\* agent_tools.py:13-16
start ==
    /\ pc = "idle"
    /\ IF start_guard
       THEN /\ CanLaunch
            /\ Enter("start", "stop_qemu")
            /\ UNCHANGED <<qemu_proc, gdbmi, emu, gdb, last>>
       ELSE /\ Whole("start", Return("None"))
            /\ UNCHANGED <<qemu_proc, gdbmi, emu, gdb>>
    /\ queue' = Aged(queue)
    /\ outbuf' = Aged(outbuf)
    /\ UNCHANGED <<regfile, ovars>>

\* agent_tools.py:18-20, a call of restart_environment by the caller
restart_environment ==
    /\ pc = "idle"
    /\ CanLaunch
    /\ Enter("restart_environment", "stop_qemu")
    /\ queue' = Aged(queue)
    /\ outbuf' = Aged(outbuf)
    /\ UNCHANGED <<qemu_proc, gdbmi, emu, gdb, last>>
    /\ UNCHANGED <<regfile, ovars>>

\* agent_tools.py:41, a call of stop_all by the caller
stop_all ==
    /\ pc = "idle"
    /\ Enter("stop_all", "stop_qemu")
    /\ queue' = Aged(queue)
    /\ outbuf' = Aged(outbuf)
    /\ UNCHANGED <<qemu_proc, gdbmi, emu, gdb, last>>
    /\ UNCHANGED <<regfile, ovars>>

\* The process group of the caller (main.py and whatever started it).
CallerPgid == 0

\* A slip Popen could make: without preexec_fn the child stays in the group of
\* the caller.
inherit(pid) == CallerPgid

\* agent_tools.py:26, preexec_fn=os.setsid: before it executes make the child
\* becomes the leader of a new session and of a new process group, whose id is
\* the child's own pid.  Popen returns after the child has done so.
setsid(pid) == pid

\* agent_tools.py:44, os.getpgid(self.qemu_proc.pid)
getpgid(e) == setsid(e)

\* A slip stop_all could make: the handle is cleared and no signal is sent.
killpg_none(pgid) == emu

\* os.killpg(pgid, SIGTERM): the signal is delivered to every process of the
\* group; a running emulator then terminates in its own time; one that has
\* exited and has not been reaped (nothing polls the Popen object) takes the
\* signal without effect.
killpg(pgid) ==
    [e \in EmuIds |->
        IF getpgid(e) = pgid /\ emu[e] = "running" THEN "terminating" ELSE emu[e]]

\* agent_tools.py:43-45.  A SIGTERM to the caller's own group ends the caller.
stop_all_qemu ==
    /\ pc = "stop_qemu"
    /\ IF qemu_proc /= None
       THEN /\ emu' = killpg(getpgid(qemu_proc))
            /\ qemu_proc' = None
            /\ pc' = IF getpgid(qemu_proc) = CallerPgid THEN "killed" ELSE "stop_gdb"
       ELSE /\ UNCHANGED <<emu, qemu_proc>>
            /\ pc' = "stop_gdb"
    /\ UNCHANGED <<gdbmi, gdb, queue, outbuf, op, pre, dropped, ret, last>>
    /\ UNCHANGED <<regfile, ovars>>

\* agent_tools.py:46-48.  GdbController.exit() terminates the debugger and
\* waits for it (terminate, then communicate), so it is gone on return.
stop_all_gdbmi ==
    /\ pc = "stop_gdb"
    /\ IF gdbmi /= None
       THEN /\ gdb' = [gdb EXCEPT ![gdbmi] = "exited"]
            /\ gdbmi' = None
            /\ queue' = <<>>
            /\ outbuf' = <<>>
            /\ regfile' = "reset"
       ELSE UNCHANGED <<gdb, gdbmi, queue, outbuf, regfile>>
    /\ IF op = "stop_all"
       THEN Leave(Return("None"))
       ELSE /\ pc' = "popen"
            /\ UNCHANGED <<op, last, ret>>
    /\ UNCHANGED <<qemu_proc, emu, pre, dropped>>
    /\ UNCHANGED ovars

\* agent_tools.py:24-29.  Popen raises when make cannot be executed.
Popen ==
    /\ pc = "popen"
    /\ \/ /\ emu' = [emu EXCEPT ![NewEmu] = "running"]
          /\ qemu_proc' = NewEmu
          /\ pc' = "sleep"
          /\ UNCHANGED <<op, last, ret>>
       \/ /\ Leave(Raise("FileNotFoundError"))
          /\ UNCHANGED <<emu, qemu_proc>>
    /\ UNCHANGED <<gdbmi, gdb, queue, outbuf, pre, dropped>>
    /\ UNCHANGED <<regfile, ovars>>

\* agent_tools.py:32
sleep ==
    /\ pc = "sleep"
    /\ pc' = "gdb_new"
    /\ UNCHANGED <<qemu_proc, gdbmi, emu, gdb, queue, outbuf, op, pre, dropped, ret, last>>
    /\ UNCHANGED <<regfile, ovars>>

\* agent_tools.py:35.  GdbController raises when gdb-multiarch is not found.
GdbController ==
    /\ pc = "gdb_new"
    /\ \/ /\ gdb' = [gdb EXCEPT ![NewGdb] = "running"]
          /\ gdbmi' = NewGdb
          /\ queue' = <<>>
          /\ outbuf' = <<>>
          /\ regfile' = "reset"
          /\ pc' = "write_symbols"
          /\ UNCHANGED <<op, last, ret>>
       \/ /\ Leave(Raise("ValueError"))
          /\ UNCHANGED <<gdb, gdbmi, queue, outbuf, regfile>>
    /\ UNCHANGED <<qemu_proc, emu, pre, dropped>>
    /\ UNCHANGED ovars

(***************************************************************************)
(* GdbController.write(text) of pygdbmi, as the code calls it (default     *)
(* timeout_sec=1, raise_error_on_timeout=True, read_response=True): the    *)
(* text is written, then the output that arrives within the timeout is     *)
(* read and returned as a list of records; when nothing arrived it raises  *)
(* GdbTimeoutError.  It does not wait for the result record of the command *)
(* it wrote, and the records of an earlier command are returned by         *)
(* whichever later call finds them in the stream.  The timeout window is   *)
(* the interval between the write step and the read step of a call.        *)
(***************************************************************************)
\* The write half: the text goes down the debugger's stdin.
Write(c) ==
    queue' = Append(queue, [mi |-> c.mi, ctype |-> c.ctype, own |-> TRUE])

\* The read half finds nothing to return.
TimedOut == outbuf = <<>>

\* agent_tools.py:36, the write; the value gdbmi.write returns is dropped.
write_symbols ==
    /\ pc = "write_symbols"
    /\ Write(LoadSymbols)
    /\ pc' = "read_symbols"
    /\ UNCHANGED <<qemu_proc, gdbmi, emu, gdb, outbuf, op, pre, dropped, ret, last>>
    /\ UNCHANGED <<regfile, ovars>>

\* agent_tools.py:36, the end of the same gdbmi.write
read_symbols ==
    /\ pc = "read_symbols"
    /\ IF TimedOut
       THEN /\ Leave(Raise("GdbTimeoutError"))
            /\ UNCHANGED <<dropped, outbuf>>
       ELSE /\ dropped' = dropped + Len(outbuf)
            /\ outbuf' = <<>>
            /\ pc' = "write_target"
            /\ UNCHANGED <<op, last, ret>>
    /\ UNCHANGED <<qemu_proc, gdbmi, emu, gdb, queue, pre>>
    /\ UNCHANGED <<regfile, ovars>>

\* agent_tools.py:37, the write; the value gdbmi.write returns is dropped.
write_target ==
    /\ pc = "write_target"
    /\ Write(TargetRemote)
    /\ pc' = "read_target"
    /\ UNCHANGED <<qemu_proc, gdbmi, emu, gdb, outbuf, op, pre, dropped, ret, last>>
    /\ UNCHANGED <<regfile, ovars>>

\* agent_tools.py:37, the end of the same gdbmi.write
read_target ==
    /\ pc = "read_target"
    /\ IF TimedOut
       THEN /\ Leave(Raise("GdbTimeoutError"))
            /\ UNCHANGED <<dropped, outbuf>>
       ELSE /\ dropped' = dropped + Len(outbuf)
            /\ outbuf' = <<>>
            /\ pc' = "return"
            /\ UNCHANGED <<op, last, ret>>
    /\ UNCHANGED <<qemu_proc, gdbmi, emu, gdb, queue, pre>>
    /\ UNCHANGED <<regfile, ovars>>

\* agent_tools.py:39 (and line 16: start drops the string and returns None)
return_status ==
    /\ pc = "return"
    /\ Leave(IF op = "start" THEN Return("None") ELSE Return(StatusString))
    /\ UNCHANGED <<qemu_proc, gdbmi, emu, gdb, queue, outbuf, pre, dropped>>
    /\ UNCHANGED <<regfile, ovars>>

\* The parameters of the exposed defs: write_memory(address, value) at line 108
\* takes no width, so a call that passes one fails to bind (TypeError).
Binds(m, w) == w = NoArg

\* agent_tools.py:50-85 and 101-113: a call of a Command API method, up to the
\* write inside gdbmi.write.  With gdbmi None the attribute lookup
\* self.gdbmi.write raises AttributeError.
command(m, w) ==
    /\ pc = "idle"
    /\ IF ~ Binds(m, w)
       THEN /\ Whole(m, Raise("TypeError"))
            /\ queue' = Aged(queue)
       ELSE IF gdbmi = None
       THEN /\ Whole(m, Raise("AttributeError"))
            /\ queue' = Aged(queue)
       ELSE /\ Len(queue) + Len(outbuf) < MaxPending
            /\ Enter(m, "read_response")
            /\ queue' = Append(Aged(queue), [mi |-> CommandOf(m).mi,
                                             ctype |-> CommandOf(m).ctype, own |-> TRUE])
            /\ UNCHANGED last
    /\ outbuf' = Aged(outbuf)
    /\ UNCHANGED <<qemu_proc, gdbmi, emu, gdb>>
    /\ UNCHANGED <<regfile, ovars>>

\* agent_tools.py:50-85 and 101-113: the end of gdbmi.write and "return response"
read_response ==
    /\ pc = "read_response"
    /\ IF TimedOut
       THEN /\ Leave(Raise("GdbTimeoutError"))
            /\ UNCHANGED outbuf
       ELSE /\ Leave(Response(outbuf))
            /\ outbuf' = <<>>
    /\ UNCHANGED <<qemu_proc, gdbmi, emu, gdb, queue, pre, dropped>>
    /\ UNCHANGED <<regfile, ovars>>

(***************************************************************************)
(* The processes.                                                          *)
(***************************************************************************)
\* An emulator process group exits: after a SIGTERM, or on its own account
\* (make fails, the emulator cannot bind its port, the guest powers off).
EmuExit(e) ==
    /\ Live(emu[e])
    /\ emu' = [emu EXCEPT ![e] = "exited"]
    /\ UNCHANGED <<qemu_proc, gdbmi, gdb, queue, outbuf, pc, op, pre, dropped, ret, last>>
    /\ UNCHANGED <<regfile, ovars>>

\* The debugger finishes the oldest unanswered command and emits its result
\* record; a -gdb-set of the register that is done has stored the value.
GdbAnswer(status) ==
    /\ queue /= <<>>
    /\ outbuf' = Append(outbuf, Result(Head(queue), status))
    /\ queue' = Tail(queue)
    /\ regfile' = IF Head(queue).mi = write_register_second.mi /\ status = "done"
               THEN "v" ELSE regfile
    /\ UNCHANGED <<qemu_proc, gdbmi, emu, gdb, pc, op, pre, dropped, ret, last>>
    /\ UNCHANGED ovars

\* The debugger emits an asynchronous notification (thread group added, target stopped).
GdbNotify ==
    /\ gdbmi /= None
    /\ Len(queue) + Len(outbuf) < MaxPending
    /\ outbuf' = Append(outbuf, Notify)
    /\ UNCHANGED <<qemu_proc, gdbmi, emu, gdb, queue, pc, op, pre, dropped, ret, last>>
    /\ UNCHANGED <<regfile, ovars>>

Next ==
    \/ start
    \/ restart_environment
    \/ stop_all
    \/ stop_all_qemu
    \/ stop_all_gdbmi
    \/ Popen
    \/ sleep
    \/ GdbController
    \/ write_symbols
    \/ read_symbols
    \/ write_target
    \/ read_target
    \/ return_status
    \/ \E m \in Methods : command(m, NoArg)
    \/ \E w \in Widths : command("write_memory", <<w>>)
    \/ read_response
    \/ \E e \in EmuIds : EmuExit(e)
    \/ \E st \in {"done", "error"} : GdbAnswer(st)
    \/ GdbNotify

Spec == Init /\ [][Next]_vars

(***************************************************************************)
(* The device descriptor index, src/src/hardware_oracle.py.  Strings the   *)
(* code takes apart (addresses, names) are sequences of one-character      *)
(* strings.                                                                *)
(***************************************************************************)
MaxPeriphs == 2    \* peripherals in the index
MaxRegs == 2       \* registers in the index, over all its peripherals
MaxDigits == 1     \* digits in an address string
MaxNameLen == 3    \* characters in a name string

RECURSIVE SeqsUpTo(_, _)
\* The sequences over S of length at most n.
SeqsUpTo(S, n) ==
    IF n = 0 THEN {<<>>}
    ELSE LET shorter == SeqsUpTo(S, n - 1)
         IN  shorter \cup {Append(q, x) : q \in shorter, x \in S}

Field(n, off, width) ==
    [name |-> n, bit_offset |-> off, bit_width |-> width, description |-> "field"]

\* The registers an index is drawn from: two names that differ in case only,
\* two offsets, and a field list that tells the registers apart.
Registers ==
    { [name |-> <<"A">>, address_offset |-> 0, description |-> "A at 0",
       fields |-> <<Field("EN", 0, 1)>>],
      [name |-> <<"a">>, address_offset |-> 0, description |-> "a at 0",
       fields |-> <<>>],
      [name |-> <<"A">>, address_offset |-> 1, description |-> "A at 1",
       fields |-> <<Field("LO", 0, 4), Field("HI", 4, 4)>>] }

Peripheral(n, b, rs) ==
    [name |-> n, base_address |-> b, description |-> "peripheral", registers |-> rs]

RECURSIVE IndexesWith(_, _)
\* The indexes of at most n peripherals holding at most r registers in all.
IndexesWith(n, r) ==
    IF n = 0 THEN {<<>>}
    ELSE {<<>>} \cup UNION
           { { <<Peripheral(nm, b, rs)>> \o rest :
                  nm \in {<<"A">>, <<"a">>}, b \in {1, 2},
                  rest \in IndexesWith(n - 1, r - Len(rs)) } :
             rs \in SeqsUpTo(Registers, r) }

\* The indexes HardwareOracle.__init__ may be handed: peripherals in document
\* order, neither sorted nor kept apart.
Indexes == IndexesWith(MaxPeriphs, MaxRegs)

\* Address strings: with and without the 0x prefix, and with a stray x.
AddrDigits == {"0", "1", "2"}
AddrPrefixes == {<<>>, <<"0", "x">>, <<"x">>}
AddrStrings == {px \o ds : px \in AddrPrefixes, ds \in SeqsUpTo(AddrDigits, MaxDigits)}
NameChars == {"a", "A", "."}
NameStrings == SeqsUpTo(NameChars, MaxNameLen)

HexChars == <<"0", "1", "2", "3", "4", "5", "6", "7", "8", "9",
              "a", "b", "c", "d", "e", "f">>

\* The value of a hexadecimal digit, -1 for any other character.
DigitValue(c) ==
    IF \E k \in DOMAIN HexChars : HexChars[k] = c
    THEN (CHOOSE k \in DOMAIN HexChars : HexChars[k] = c) - 1
    ELSE -1

RECURSIVE DigitsValue(_, _)
DigitsValue(str, acc) ==
    IF str = <<>> THEN acc
    ELSE DigitsValue(Tail(str), acc * 16 + DigitValue(Head(str)))

\* int(hex_addr, 16), hardware_oracle.py:33, for strings of digits and x: an
\* optional 0x prefix, then one digit at least; anything else is a ValueError.
ParseHex(str) ==
    LET body == IF Len(str) >= 2 /\ str[1] = "0" /\ str[2] = "x"
                THEN SubSeq(str, 3, Len(str)) ELSE str
    IN  IF body /= <<>> /\ \A k \in DOMAIN body : DigitValue(body[k]) >= 0
        THEN [ok |-> TRUE, val |-> DigitsValue(body, 0)]
        ELSE [ok |-> FALSE, val |-> 0]

RECURSIVE HexDigits(_)
HexDigits(n) ==
    IF n < 16 THEN <<HexChars[n + 1]>>
    ELSE Append(HexDigits(n \div 16), HexChars[(n % 16) + 1])

\* Python's hex() of a natural number
hex(n) == <<"0", "x">> \o HexDigits(n)

NotFound == [status |-> "No matching register found for this address."]

\* hardware_oracle.py:58-73
Match(periph, reg, addr) ==
    [peripheral |-> periph.name,
     register |-> reg.name,
     description |-> reg.description,
     address |-> hex(addr),
     fields |-> [k \in DOMAIN reg.fields |->
                   [name |-> reg.fields[k].name,
                    bit_offset |-> reg.fields[k].bit_offset,
                    bit_width |-> reg.fields[k].bit_width,
                    description |-> reg.fields[k].description]]]

\* A slip the range test could make: a peripheral's own base address is skipped.
Skips_le(addr, base) == addr <= base

\* hardware_oracle.py:49, "if addr < base: continue"
Skips(addr, base) == addr < base

RECURSIVE ScanRegisters_last(_, _, _)
\* A slip the register scan could make: a later register at the offset replaces
\* an earlier one (the return moved out of the loop).
ScanRegisters_last(periph, j, addr) ==
    IF j > Len(periph.registers) THEN NotFound
    ELSE LET later == ScanRegisters_last(periph, j + 1, addr)
         IN  IF later /= NotFound THEN later
             ELSE IF periph.registers[j].address_offset = addr - periph.base_address
                  THEN Match(periph, periph.registers[j], addr)
                  ELSE NotFound

RECURSIVE ScanRegisters(_, _, _)
\* hardware_oracle.py:55-73, from register j of periph on
ScanRegisters(periph, j, addr) ==
    IF j > Len(periph.registers) THEN NotFound
    ELSE IF periph.registers[j].address_offset = addr - periph.base_address
         THEN Match(periph, periph.registers[j], addr)
         ELSE ScanRegisters(periph, j + 1, addr)

RECURSIVE ScanPeripherals(_, _, _)
\* hardware_oracle.py:37-75, from peripheral i of the index on
ScanPeripherals(index, i, addr) ==
    IF i > Len(index) THEN NotFound
    ELSE IF Skips(addr, index[i].base_address)
         THEN ScanPeripherals(index, i + 1, addr)
         ELSE LET m == ScanRegisters(index[i], 1, addr)
              IN  IF m /= NotFound THEN m ELSE ScanPeripherals(index, i + 1, addr)

\* hardware_oracle.py:22-75
resolve_address(index, hex_addr) ==
    IF ~ ParseHex(hex_addr).ok
    THEN [error |-> "Invalid address format", hex_addr |-> hex_addr]
    ELSE ScanPeripherals(index, 1, ParseHex(hex_addr).val)

\* str.upper() on the letters of NameChars
UpperChar(c) == IF c = "a" THEN "A" ELSE c
upper(str) == [k \in DOMAIN str |-> UpperChar(str[k])]

RECURSIVE split(_)
\* str.split('.')
split(str) ==
    IF \A k \in DOMAIN str : str[k] /= "."
    THEN <<str>>
    ELSE LET d == CHOOSE k \in DOMAIN str :
                     str[k] = "." /\ \A l \in 1..(k - 1) : str[l] /= "."
         IN  <<SubSeq(str, 1, d - 1)>> \o split(SubSeq(str, d + 1, Len(str)))

\* hardware_oracle.py:87, the normalisation of the name before it is split
Normalise(name) == upper(name)

RECURSIVE FindPeripheral(_, _, _)
\* hardware_oracle.py:91-95: the position of the first peripheral named p_name, 0 for none
FindPeripheral(index, i, p_name) ==
    IF i > Len(index) THEN 0
    ELSE IF index[i].name = p_name THEN i
         ELSE FindPeripheral(index, i + 1, p_name)

RECURSIVE FindRegister(_, _, _)
\* hardware_oracle.py:101-102: the position of the first register named r_name, 0 for none
FindRegister(regs, j, r_name) ==
    IF j > Len(regs) THEN 0
    ELSE IF regs[j].name = r_name THEN j
         ELSE FindRegister(regs, j + 1, r_name)

\* hardware_oracle.py:77-118
get_reg_info(index, name) ==
    LET parts  == split(Normalise(name))
        p_name == parts[1]
        \* "if r_name:" is false for None and for the empty string alike
        has_r  == Len(parts) > 1 /\ parts[2] /= <<>>
        r_name == IF Len(parts) > 1 THEN parts[2] ELSE <<>>
        pi     == FindPeripheral(index, 1, p_name)
    IN  IF pi = 0
        THEN [error |-> "Peripheral not found.", peripheral |-> p_name]
        ELSE LET found_periph == index[pi]
                 ri == FindRegister(found_periph.registers, 1, r_name)
             IN  IF has_r
                 THEN IF ri /= 0
                      THEN [peripheral |-> p_name,
                            register |-> r_name,
                            base_address |-> hex(found_periph.base_address),
                            offset |-> hex(found_periph.registers[ri].address_offset),
                            absolute_address |-> hex(found_periph.base_address
                                 + found_periph.registers[ri].address_offset),
                            description |-> found_periph.registers[ri].description]
                      ELSE [error |-> "Register not found in peripheral.",
                            register |-> r_name, peripheral |-> p_name]
                 ELSE [peripheral |-> p_name,
                       base_address |-> hex(found_periph.base_address),
                       description |-> found_periph.description,
                       registers |-> [k \in DOMAIN found_periph.registers |->
                                         found_periph.registers[k].name]]

\* The calls the caller may make of the oracle.
Queries ==
    {[fn |-> "resolve_address", arg |-> hex_addr] : hex_addr \in AddrStrings}
        \cup {[fn |-> "get_reg_info", arg |-> name] : name \in NameStrings}

\* After HardwareOracle.__init__ (hardware_oracle.py:5-20), with the call the
\* caller is about to make; the session is as constructed.
OracleInit ==
    /\ qemu_proc = None
    /\ gdbmi = None
    /\ emu = [e \in EmuIds |-> "unborn"]
    /\ gdb = [g \in GdbIds |-> "unborn"]
    /\ queue = <<>>
    /\ outbuf = <<>>
    /\ pc = "idle"
    /\ op = ""
    /\ pre = <<None, None>>
    /\ dropped = 0
    /\ ret = Pending
    /\ last = ""
    /\ regfile = "reset"
    /\ peripherals \in Indexes
    /\ query \in Queries
    /\ result = NoResult

\* A slip a lookup could make: the "cache for faster lookups" of
\* hardware_oracle.py:18-19 added as a move of the matching peripheral to the
\* front of the index.
ResolveAddress_caching ==
    /\ query.fn = "resolve_address"
    /\ result' = resolve_address(peripherals, query.arg)
    /\ peripherals' =
          IF "register" \in DOMAIN result'
          THEN LET hit == CHOOSE i \in DOMAIN peripherals :
                             /\ ScanRegisters(peripherals[i], 1, ParseHex(query.arg).val) = result'
                             /\ ~ Skips(ParseHex(query.arg).val, peripherals[i].base_address)
               IN  <<peripherals[hit]>> \o SubSeq(peripherals, 1, hit - 1)
                       \o SubSeq(peripherals, hit + 1, Len(peripherals))
          ELSE peripherals
    /\ UNCHANGED query
    /\ UNCHANGED svars

\* A call of oracle.resolve_address(hex_addr)
ResolveAddress ==
    /\ query.fn = "resolve_address"
    /\ result' = resolve_address(peripherals, query.arg)
    /\ UNCHANGED <<peripherals, query>>
    /\ UNCHANGED svars

\* A call of oracle.get_reg_info(name)
GetRegInfo ==
    /\ query.fn = "get_reg_info"
    /\ result' = get_reg_info(peripherals, query.arg)
    /\ UNCHANGED <<peripherals, query>>
    /\ UNCHANGED svars

OracleNext == ResolveAddress \/ GetRegInfo

OracleSpec == OracleInit /\ [][OracleNext]_vars

\* The caller calls resolve_address only.
ResolveInit == OracleInit /\ query.fn = "resolve_address"
ResolveSpec == ResolveInit /\ [][ResolveAddress]_vars

\* The caller calls get_reg_info only.
DescribeInit == OracleInit /\ query.fn = "get_reg_info"
DescribeSpec == DescribeInit /\ [][GetRegInfo]_vars

\* The caller makes one lookup after another, of either kind, on an index at
\* its bound: MaxPeriphs peripherals, none of them empty.
LookupInit ==
    /\ peripherals \in {index \in Indexes :
                           /\ Len(index) = MaxPeriphs
                           /\ \A i \in DOMAIN index : index[i].registers /= <<>>}
    /\ OracleInit

\* The lookups of what an index holds: each peripheral by its name as stored,
\* and each register by its address as get_reg_info prints it.
IndexQueries(index) ==
    {[fn |-> "get_reg_info", arg |-> index[i].name] : i \in DOMAIN index}
        \cup UNION {{[fn |-> "resolve_address",
                      arg |-> hex(index[i].base_address
                                    + index[i].registers[j].address_offset)] :
                        j \in DOMAIN index[i].registers} : i \in DOMAIN index}

\* With one lookup answered the caller turns to another, of something the
\* index holds.
AnotherLookup ==
    /\ result /= NoResult
    /\ query' \in IndexQueries(peripherals) \ {query}
    /\ result' = NoResult
    /\ UNCHANGED peripherals
    /\ UNCHANGED svars

LookupNext == ResolveAddress \/ GetRegInfo \/ AnotherLookup

LookupSpec == LookupInit /\ [][LookupNext]_vars

(***************************************************************************)
(* Claims about the session.                                               *)
(***************************************************************************)
Returned(m) == pc = "idle" /\ last = m /\ ret.kind = "return"

\* C1: in every reachable state at most one emulator process and at most one
\* debugger process are live, the interval inside restart_environment between
\* the SIGTERM to the old emulator group and the launch of the new emulator
\* included.
C1_AtMostOneLive ==
    /\ Cardinality(LiveEmus) <= 1
    /\ Cardinality(LiveGdbs) <= 1

\* C2: when restart_environment was called with both handles present and has
\* returned, the only live processes are the ones the handles refer to, the
\* debugger is live, and no process of the prior session is live.  (That the new
\* emulator may have exited of its own accord is not held against the code.)
C2_RestartLeavesOneSession ==
    (Returned("restart_environment") /\ pre[1] /= None /\ pre[2] /= None)
        => /\ LiveEmus \subseteq {qemu_proc}
           /\ LiveGdbs = {gdbmi}
           /\ ~ Live(emu[pre[1]])
           /\ ~ Live(gdb[pre[2]])

\* C3: a Command API method called while the debugger handle is None ends with
\* a SessionNotReady outcome returned as a value (not raised), and leaves both
\* handles as they were.
C3_SessionNotReady ==
    (pc = "idle" /\ last \in Methods /\ pre[2] = None)
        => /\ ret = Return("SessionNotReady")
           /\ <<qemu_proc, gdbmi>> = pre

\* C4: after stop_all, from whatever state it was called, the call has returned
\* without error, both handles are None and no emulator or debugger process is
\* live.
C4_StopAllStopsAll ==
    (pc = "idle" /\ last = "stop_all")
        => /\ ret = Return("None")
           /\ qemu_proc = None
           /\ gdbmi = None
           /\ LiveEmus = {}
           /\ LiveGdbs = {}

\* What a no-op leaves alone: the handles, the processes and the debugger's
\* streams (the own marks on the streams are bookkeeping of the calls).
SessionUntouched ==
    /\ qemu_proc' = qemu_proc
    /\ gdbmi' = gdbmi
    /\ emu' = emu
    /\ gdb' = gdb
    /\ Aged(queue') = Aged(queue)
    /\ Aged(outbuf') = Aged(outbuf)
    /\ pc' = "idle"

\* C5 as stated: start is idempotent, and any two consecutive start calls leave
\* the state the first one left: a start that follows a start changes nothing.
C5_ConsecutiveStartsOriginal ==
    [][(start /\ last = "start") => SessionUntouched]_vars

\* C5 as amended: a start with a debugger handle present launches nothing,
\* signals nothing, writes nothing and leaves both handles; a start without one
\* enters restart_environment's body at its first statement; and a start that
\* follows a start that returned normally changes nothing.
C5_StartIdempotent ==
    [][start =>
        /\ (gdbmi /= None => SessionUntouched /\ ret' = Return("None"))
        /\ (gdbmi = None =>
              /\ pc' = "stop_qemu"
              /\ UNCHANGED <<qemu_proc, gdbmi, emu, gdb>>
              /\ Aged(queue') = Aged(queue)
              /\ Aged(outbuf') = Aged(outbuf))
        /\ ((last = "start" /\ ret.kind = "return") => SessionUntouched)]_vars

\* C5 witness: a start called with a live session has returned.
C5_Witness ==
    /\ Returned("start")
    /\ pre[2] /= None
    /\ pre = <<qemu_proc, gdbmi>>
    /\ LiveGdbs = {gdbmi}

Awaiting == queue /= <<>> \/ \E i \in DOMAIN outbuf : outbuf[i].kind = "result"
OwnResult(resp) == \E i \in DOMAIN resp : resp[i].kind = "result" /\ resp[i].own

\* C6: a command is written only when no earlier command still awaits its
\* result record, and a Command API method returns a value only when that value
\* holds the result record of the command the call wrote.
C6_NotPipelined ==
    [][/\ (Len(queue') = Len(queue) + 1) => ~ Awaiting
       /\ (pc = "read_response" /\ pc' = "idle" /\ ret'.kind = "return")
             => OwnResult(ret'.resp)]_vars

\* C7: when restart_environment returns, the value it returns holds the result
\* records of the two bootstrap commands it wrote, and none of the records the
\* call read has been dropped.
C7_BootstrapRecordsReturned ==
    Returned("restart_environment")
        => /\ dropped = 0
           /\ Cardinality({i \in DOMAIN ret.resp :
                              ret.resp[i].kind = "result" /\ ret.resp[i].own}) = 2

\* C8: a write_memory call with a width in {1,2,4,8} on a live session writes
\* exactly one command, and that command stores exactly that many bytes.
C8_WriteMemoryWidth ==
    [][\A w \in Widths :
          (command("write_memory", <<w>>) /\ gdbmi /= None)
             => /\ Len(queue') = Len(queue) + 1
                /\ SizeOf(queue'[Len(queue')].ctype) = w]_vars

(***************************************************************************)
(* Claims about the index.                                                 *)
(***************************************************************************)
Resolved == query.fn = "resolve_address" /\ result /= NoResult /\ ParseHex(query.arg).ok
Described == query.fn = "get_reg_info" /\ result /= NoResult

\* The registers of the index at absolute address a, as <<peripheral, register>> positions.
RegistersAt(a) ==
    {pr \in (DOMAIN peripherals) \X (1..MaxRegs) :
        /\ pr[2] \in DOMAIN peripherals[pr[1]].registers
        /\ peripherals[pr[1]].base_address
              + peripherals[pr[1]].registers[pr[2]].address_offset = a}

IsMatchOf(res, pr) ==
    /\ "register" \in DOMAIN res
    /\ res.register = peripherals[pr[1]].registers[pr[2]].name
    /\ res.fields = peripherals[pr[1]].registers[pr[2]].fields

\* C9 as stated: for a valid hex address a, whichever register R of whichever
\* peripheral P has base(P) + offset(R) = a, resolve_address(a) returns the name
\* and the complete field list of that R; with no such register it returns
\* NotFound.
C9_ResolveOriginal ==
    Resolved =>
        LET a == ParseHex(query.arg).val
        IN  /\ \A pr \in RegistersAt(a) : IsMatchOf(result, pr)
            /\ RegistersAt(a) = {} => result = NotFound

\* C9 as amended: for a valid hex address a at which the index has a register,
\* resolve_address(a) returns the name and the complete field list, in order, of
\* a register at a (of the only one, when only one is there), with the name of
\* its peripheral; with no register at a it returns NotFound, not an error.
C9_Resolve ==
    Resolved =>
        LET a == ParseHex(query.arg).val
        IN  /\ RegistersAt(a) /= {} =>
                  \E pr \in RegistersAt(a) :
                     /\ IsMatchOf(result, pr)
                     /\ result.peripheral = peripherals[pr[1]].name
            /\ RegistersAt(a) = {} => result = NotFound

\* C9 witness: an address resolved in an index whose peripherals are out of
\* order and overlap, two registers with different names sharing the address.
C9_Witness ==
    /\ Resolved
    /\ "register" \in DOMAIN result
    /\ Len(peripherals) = 2
    /\ peripherals[1].base_address > peripherals[2].base_address
    /\ \E pr \in RegistersAt(ParseHex(query.arg).val) :
          pr[1] = 2 /\ peripherals[2].registers[pr[2]].name /= result.register

\* The first peripheral whose name is p_name in some spelling, 0 for none.
AnyCase(index, p_name) ==
    IF \E i \in DOMAIN index : upper(index[i].name) = upper(p_name)
    THEN CHOOSE i \in DOMAIN index :
            /\ upper(index[i].name) = upper(p_name)
            /\ \A k \in 1..(i - 1) : upper(index[k].name) /= upper(p_name)
    ELSE 0

\* C10: get_reg_info is case-insensitive: every spelling of a name gives the
\* outcome the name gives, and a peripheral, or a register of it, that the index
\* holds is found under any spelling of its name, however the index spells it.
C10_CaseInsensitive ==
    Described =>
        LET parts == split(query.arg)
            pi    == AnyCase(peripherals, parts[1])
        IN  /\ \A n \in NameStrings :
                  upper(n) = upper(query.arg) => get_reg_info(peripherals, n) = result
            /\ pi /= 0 =>
                  /\ "error" \in DOMAIN result => "register" \in DOMAIN result
                  /\ (/\ Len(parts) > 1
                      /\ \E k \in DOMAIN peripherals[pi].registers :
                            upper(peripherals[pi].registers[k].name) = upper(parts[2]))
                        => "error" \notin DOMAIN result

\* Peripheral i is the only peripheral of the index under its name, and
\* register j the only register of it under its name (spec section 3).
UniquePeripheral(i) ==
    \A k \in DOMAIN peripherals : peripherals[k].name = peripherals[i].name => k = i
UniqueRegister(i, j) ==
    \A k \in DOMAIN peripherals[i].registers :
        peripherals[i].registers[k].name = peripherals[i].registers[j].name => k = j

\* C11: describe("P") of a peripheral P of the index returns the names of all
\* registers of P, each once and in document order, with P's base address;
\* describe("P.R") of a register R of P returns base(P), offset(R) and their sum;
\* a name of no peripheral, or of no register under a peripheral of the index,
\* gives a not-found payload.
C11_Describe ==
    Described =>
        /\ \A i \in DOMAIN peripherals :
              LET P == peripherals[i]
              IN  UniquePeripheral(i) =>
                    /\ query.arg = P.name =>
                          /\ "registers" \in DOMAIN result
                          /\ result.registers = [k \in DOMAIN P.registers |-> P.registers[k].name]
                          /\ result.base_address = hex(P.base_address)
                    /\ \A j \in DOMAIN P.registers :
                          (UniqueRegister(i, j)
                             /\ query.arg = P.name \o <<".">> \o P.registers[j].name) =>
                             /\ "absolute_address" \in DOMAIN result
                             /\ result.base_address = hex(P.base_address)
                             /\ result.offset = hex(P.registers[j].address_offset)
                             /\ result.absolute_address =
                                   hex(P.base_address + P.registers[j].address_offset)
        /\ AnyCase(peripherals, split(query.arg)[1]) = 0 => "error" \in DOMAIN result

(***************************************************************************)
(* Claims about the tool surface (main.py:37-53).                          *)
(***************************************************************************)
\* The session operations handed to the orchestrator as tools.
SessionTools == Methods \cup {"restart_environment"}

\* What an oracle tool returned is a payload of one of the three kinds, and a
\* string that is no hex address gives the error payload, not NotFound.
OraclePayload ==
    /\ (query.fn = "resolve_address" /\ result /= NoResult) =>
          /\ ParseHex(query.arg).ok =>
                (result = NotFound \/ "register" \in DOMAIN result)
          /\ ~ ParseHex(query.arg).ok =>
                ("error" \in DOMAIN result /\ result /= NotFound)
    /\ (query.fn = "get_reg_info" /\ result /= NoResult) =>
          ("error" \in DOMAIN result \/ "peripheral" \in DOMAIN result)

\* C12: every call of a tool, in every session state and with every argument,
\* ends by returning a payload; no call ends by raising.
C12_NoFaultEscapes ==
    /\ (pc = "idle" /\ last \in SessionTools) => ret.kind = "return"
    /\ OraclePayload

(***************************************************************************)
(* Claims about the order of restart_environment and about teardown.       *)
(***************************************************************************)
\* The steps of restart_environment in the order the claim gives them.
RestartSteps == <<"stop_qemu", "stop_gdb", "popen", "sleep", "gdb_new",
                  "write_symbols", "read_symbols", "write_target",
                  "read_target", "return">>
Position(p) == CHOOSE k \in DOMAIN RestartSteps : RestartSteps[k] = p
InRestart == op \in {"start", "restart_environment"} /\ pc /= "idle"

\* C14: a run of restart_environment takes its steps in the order of
\* RestartSteps, leaving it only by an exception or by the final return; the
\* emulator is launched only after the teardown is complete, that is when no
\* emulator and no debugger of the prior session is live any more; the connect
\* command is written only with an emulator launched; and the status string is
\* returned only from the last step.
C14_RestartOrder ==
    [][/\ (InRestart /\ pc' /= pc) =>
             (pc' = "idle" \/ Position(pc') = Position(pc) + 1)
       /\ (InRestart /\ pc' = "idle" /\ ret'.kind = "return") => pc = "return"
       /\ (pc = "popen" /\ pc' = "sleep") => (LiveEmus = {} /\ LiveGdbs = {})
       /\ (pc = "write_target" /\ pc' /= pc) => qemu_proc /= None]_vars

(***************************************************************************)
(* More claims about the index.                                            *)
(***************************************************************************)
\* The first register at absolute address a in document order: the earliest
\* peripheral that has one, and the earliest such register of it.
FirstAt(a) ==
    CHOOSE pr \in RegistersAt(a) :
        \A qr \in RegistersAt(a) :
            pr[1] < qr[1] \/ (pr[1] = qr[1] /\ pr[2] <= qr[2])

\* C15: when one or more (peripheral, register) pairs lie at the address,
\* resolve_address returns the first of them in document order, and a collision
\* or an overlap never makes it return an error or NotFound.
C15_FirstMatchWins ==
    (Resolved /\ RegistersAt(ParseHex(query.arg).val) /= {}) =>
        LET f == FirstAt(ParseHex(query.arg).val)
            P == peripherals[f[1]]
            R == P.registers[f[2]]
        IN  /\ "register" \in DOMAIN result
            /\ result.peripheral = P.name
            /\ result.register = R.name
            /\ result.description = R.description
            /\ result.fields = R.fields

\* C15 witness: an address resolved at which a later, overlapping peripheral
\* holds a register that differs from the one returned.
C15_Witness ==
    /\ Resolved
    /\ "register" \in DOMAIN result
    /\ LET at == RegistersAt(ParseHex(query.arg).val)
           f  == FirstAt(ParseHex(query.arg).val)
       IN  \E qr \in at :
              /\ qr[1] > f[1]
              /\ peripherals[qr[1]].registers[qr[2]].description /= result.description

(***************************************************************************)
(* More claims about the Command API.                                      *)
(***************************************************************************)
\* The calls of the Command API the caller may make: each method with the
\* arguments of the exposed def, and write_memory with a width as well.
ApiCalls == (Methods \X {NoArg}) \cup ({"write_memory"} \X {<<w>> : w \in Widths})

\* C16: a call of a Command API operation on a session with a debugger handle
\* writes exactly one command, the one of that operation; the value a call
\* returns is the sequence of records read from the debugger, unchanged; no
\* step of such a call changes a handle, and a handle changes only inside
\* start, restart_environment or stop_all.
C16_ThinMapping ==
    [][/\ \A c \in ApiCalls :
             (command(c[1], c[2]) /\ gdbmi /= None) =>
                 /\ Len(queue') = Len(queue) + 1
                 /\ queue'[Len(queue')].mi = CommandOf(c[1]).mi
       /\ (read_response /\ ret'.kind = "return") => ret'.resp = outbuf
       /\ (read_response \/ \E c \in ApiCalls : command(c[1], c[2])) =>
             UNCHANGED <<qemu_proc, gdbmi>>
       /\ (qemu_proc' /= qemu_proc \/ gdbmi' /= gdbmi) =>
             op \in {"start", "restart_environment", "stop_all"}]_vars

\* C17: no lookup changes the index, whatever lookups went before it, and the
\* output of a lookup is the output the same lookup gives when it is made again
\* on the index as the call left it; a call repeated at once returns what it
\* returned.
C17_ReadOnly ==
    [][/\ peripherals' = peripherals
       /\ ResolveAddress =>
             /\ result' = resolve_address(peripherals', query'.arg)
             /\ result /= NoResult => result' = result
       /\ GetRegInfo =>
             /\ result' = get_reg_info(peripherals', query'.arg)
             /\ result /= NoResult => result' = result]_vars

\* C17 witness: a lookup by address has found a register in a peripheral that
\* is not the first of the index, the case a reordering index would show.
C17_Witness ==
    /\ Resolved
    /\ "register" \in DOMAIN result
    /\ Len(peripherals) = MaxPeriphs
    /\ FirstAt(ParseHex(query.arg).val)[1] > 1

\* C20: a match resolve_address returns lies at the parsed address, and its
\* address field is the canonical hex of that address; and for every register R
\* of every peripheral P of the index (each the only one under its name), the
\* absolute address get_reg_info("P.R") returns resolves to a register at that
\* address, to P.R itself when P.R is the first one there in document order.
C20_LookupsAgree ==
    /\ (Resolved /\ "register" \in DOMAIN result) =>
          /\ \E pr \in RegistersAt(ParseHex(query.arg).val) :
                /\ IsMatchOf(result, pr)
                /\ result.peripheral = peripherals[pr[1]].name
          /\ result.address = hex(ParseHex(query.arg).val)
    /\ Described =>
          \A i \in DOMAIN peripherals : \A j \in DOMAIN peripherals[i].registers :
              LET P == peripherals[i]
                  R == P.registers[j]
                  a == P.base_address + R.address_offset
              IN  (UniquePeripheral(i) /\ UniqueRegister(i, j)
                     /\ query.arg = P.name \o <<".">> \o R.name) =>
                    /\ "absolute_address" \in DOMAIN result
                    /\ LET m == resolve_address(peripherals, result.absolute_address)
                       IN  /\ "register" \in DOMAIN m
                           /\ m.address = result.absolute_address
                           /\ \E pr \in RegistersAt(a) : IsMatchOf(m, pr)
                           /\ FirstAt(a) = <<i, j>> =>
                                 (m.peripheral = P.name /\ m.register = R.name)

\* C13: when get_registers returns and the backend's register holds the value
\* v that an earlier write_register stored (no command changes it afterwards),
\* the payload returned holds the result record of this get_registers, showing
\* v for the register.
C13_RoundTrip ==
    (Returned("get_registers") /\ regfile = "v") =>
        \E i \in DOMAIN ret.resp :
            /\ ret.resp[i].kind = "result"
            /\ ret.resp[i].own
            /\ ret.resp[i].value = "v"

(***************************************************************************)
(* Claims about process groups.                                            *)
(***************************************************************************)
\* C18: every live emulator leads a process group of its own, which is not the
\* caller's; a step that signals an emulator signals the one the handle refers
\* to and no other; and the caller is never ended by a signal of its own.
C18_TeardownScoped ==
    [][/\ emu' /= emu =>
             \A e \in EmuIds :
                /\ Live(emu'[e]) =>
                      /\ getpgid(e) /= CallerPgid
                      /\ \A f \in EmuIds : getpgid(f) = getpgid(e) => f = e
                /\ (emu[e] = "running" /\ emu'[e] = "terminating") => e = qemu_proc
       /\ pc' /= "killed"]_vars

\* C18 witness: stop_all has signalled the emulator the handle referred to, and
\* the caller goes on to close the debugger.
C18_Witness ==
    /\ pc = "stop_gdb"
    /\ pre[1] /= None
    /\ emu[pre[1]] = "terminating"
    /\ qemu_proc = None

\* C19: an emulator that has been launched and has neither been sent a signal
\* nor exited is the one the emulator handle refers to.
C19_NoOrphan ==
    \A e \in EmuIds : emu[e] = "running" => qemu_proc = e

\* C19 witness: restart_environment failed partway, the debugger did not launch
\* after the emulator had, and the handle refers to the running emulator.
C19_Witness ==
    /\ pc = "idle"
    /\ ret = Raise("ValueError")
    /\ qemu_proc /= None
    /\ emu[qemu_proc] = "running"
    /\ gdbmi = None

=============================================================================
